---- MODULE Spec2Model ----
(***************************************************************************)
(* A model of src/src/api-resource.js: the apiResource provider, the       *)
(* Resource classes its factory generates, and the promise chain behind    *)
(* every action call.                                                      *)
(*                                                                         *)
(* Strings are sequences of one-character strings, so that the regular     *)
(* expressions, charAt/slice/split and String.replace of the source are    *)
(* computed character by character.  JavaScript values are tagged records. *)
(***************************************************************************)
EXTENDS Integers, Sequences, FiniteSets, TLC

(***************************************************************************)
(* Bounds of the model.                                                    *)
(***************************************************************************)
\* requests issued in one behaviour
MaxRequests == 2
\* length of the arrays passed as a body or returned by the transport
MaxLen == 2

(***************************************************************************)
(* Strings.                                                                *)
(***************************************************************************)
sGET == <<"G", "E", "T">>
sPOST == <<"P", "O", "S", "T">>
sPUT == <<"P", "U", "T">>
sPATCH == <<"P", "A", "T", "C", "H">>
sPostLower == <<"p", "o", "s", "t">>
sPutMixed == <<"P", "u", "t">>
sPatchLower == <<"p", "a", "t", "c", "h">>
sDELETE == <<"D", "E", "L", "E", "T", "E">>
sGet == <<"g", "e", "t">>
sSave == <<"s", "a", "v", "e">>
sQuery == <<"q", "u", "e", "r", "y">>
sAct == <<"a", "c", "t">>
sId == <<"i", "d">>
sName == <<"n", "a", "m", "e">>
sData == <<"d", "a", "t", "a">>
sAnn == <<"A", "n", "n">>
sBob == <<"B", "o", "b">>
sUndefined == <<"u", "n", "d", "e", "f", "i", "n", "e", "d">>
sNull == <<"n", "u", "l", "l">>
sObjectObject == <<"[", "o", "b", "j", "e", "c", "t", " ", "O", "b", "j", "e", "c", "t", "]">>
sBase == <<"/", "a", "p", "i">>
sUserRoute == <<"/", "u", "s", "e", "r", "/", ":", "i", "d">>
sUser5 == <<"/", "u", "s", "e", "r", "/", "5">>
sAtId == <<"@", "i", "d">>
sAt0 == <<"@", "0">>
sAt1 == <<"@", "1">>
sAt0ab == <<"@", "0", ".", "a", ".", "b">>
sEq == <<"=">>

LowerLetters == <<"a", "b", "c", "d", "e", "f", "g", "h", "i", "j", "k", "l", "m",
                  "n", "o", "p", "q", "r", "s", "t", "u", "v", "w", "x", "y", "z">>
UpperLetters == <<"A", "B", "C", "D", "E", "F", "G", "H", "I", "J", "K", "L", "M",
                  "N", "O", "P", "Q", "R", "S", "T", "U", "V", "W", "X", "Y", "Z">>
Digits == <<"0", "1", "2", "3", "4", "5", "6", "7", "8", "9">>

\* the case folding of a regular expression with the i flag
UpperChar(c) ==
    IF \E i \in DOMAIN LowerLetters : LowerLetters[i] = c
    THEN UpperLetters[CHOOSE i \in DOMAIN LowerLetters : LowerLetters[i] = c]
    ELSE c

UpperCase(s) == [i \in DOMAIN s |-> UpperChar(s[i])]

IsDigit(c) == \E i \in DOMAIN Digits : Digits[i] = c

DigitValue(c) == (CHOOSE i \in DOMAIN Digits : Digits[i] = c) - 1

\* String.prototype.slice(from)
Slice(s, from) == IF from >= Len(s) THEN <<>> ELSE SubSeq(s, from + 1, Len(s))

\* String.prototype.charAt(i), 0-based; "" beyond the end
CharAt(s, i) == IF i < Len(s) THEN s[i + 1] ELSE ""

\* the match of /^\d+/ : the longest prefix of digits (empty: no match)
RECURSIVE DigitPrefixLen(_)
DigitPrefixLen(s) ==
    IF s = <<>> \/ ~IsDigit(Head(s)) THEN 0 ELSE 1 + DigitPrefixLen(Tail(s))

\* 0-based position of the first occurrence of pat in s, or -1
RECURSIVE IndexOfFrom(_, _, _)
IndexOfFrom(s, pat, k) ==
    IF k + Len(pat) > Len(s) THEN -1
    ELSE IF SubSeq(s, k + 1, k + Len(pat)) = pat THEN k
    ELSE IndexOfFrom(s, pat, k + 1)

IndexOf(s, pat) == IndexOfFrom(s, pat, 0)

\* String.prototype.replace(pat, by) with a string pattern: the first occurrence only
StringReplace(s, pat, by) ==
    LET k == IndexOf(s, pat)
    IN  IF k < 0 THEN s
        ELSE SubSeq(s, 1, k) \o by \o SubSeq(s, k + Len(pat) + 1, Len(s))

\* String.prototype.split('.')
RECURSIVE SplitDots(_)
SplitDots(s) ==
    LET k == IndexOf(s, <<".">>)
    IN  IF k < 0 THEN <<s>>
        ELSE <<SubSeq(s, 1, k)>> \o SplitDots(Slice(s, k + 1))

EndsWith(s, suffix) ==
    /\ Len(suffix) <= Len(s)
    /\ SubSeq(s, Len(s) - Len(suffix) + 1, Len(s)) = suffix

(***************************************************************************)
(* JavaScript values.                                                      *)
(***************************************************************************)
Undefined == [t |-> "undefined"]
Null == [t |-> "null"]
\* a property an object does not own
Absent == [t |-> "absent"]
Num(s) == [t |-> "number", v |-> s]
Str(s) == [t |-> "string", v |-> s]
Obj(kv) == [t |-> "object", kv |-> kv]
Arr(items) == [t |-> "array", items |-> items]
Fn(result) == [t |-> "function", ret |-> result]
Err(e) == [t |-> "error", e |-> e]
\* the response object the transport fulfils with
Response(data) == [t |-> "response", data |-> data]

\* decimal property name of an array index
IndexKey(i) == <<Digits[i + 1]>>

DataKeys == {sId, sName, sData, <<"a">>, <<"b">>}
Keys == DataKeys \cup {IndexKey(i) : i \in 0..MaxLen}
\* the enumeration order of the own keys of an object
KeyOrder == [i \in 1..(MaxLen + 1) |-> IndexKey(i - 1)] \o <<sId, sName, sData, <<"a">>, <<"b">>>>

NoKeys == [k \in Keys |-> Absent]

\* an object literal: the keys of the record-like function f, nothing else
Lit(f) == Obj([k \in Keys |-> IF k \in DOMAIN f THEN f[k] ELSE Absent])

isUndefined(v) == v.t = "undefined"
isDefined(v) == v.t # "undefined"
isObject(v) == v.t \in {"object", "array", "response", "error", "config"}
isArray(v) == v.t = "array"
isFunction(v) == v.t = "function"
isString(v) == v.t = "string"
isNumber(v) == v.t = "number"
Nullish(v) == v.t \in {"undefined", "null"}

\* ToBoolean
Truthy(v) ==
    CASE v.t \in {"undefined", "null"} -> FALSE
      [] v.t = "string" -> v.v # <<>>
      [] v.t = "number" -> v.v # <<"0">>
      [] OTHER -> TRUE

\* a canonical array index: "0", or digits without a leading zero (one digit here)
IsIndexKey(key) == Len(key) = 1 /\ IsDigit(key[1])

\* the own enumerable properties of a value, as a function on Keys
OwnProps(v) ==
    CASE v.t = "object" -> v.kv
      [] v.t = "array" ->
            [k \in Keys |->
                IF IsIndexKey(k) /\ DigitValue(k[1]) < Len(v.items)
                THEN v.items[DigitValue(k[1]) + 1] ELSE Absent]
      [] v.t = "response" -> [k \in Keys |-> IF k = sData THEN v.data ELSE Absent]
      [] OTHER -> NoKeys

\* obj[key] on a value that is neither undefined nor null
Get(v, key) ==
    IF v.t = "string"
    THEN IF IsIndexKey(key) /\ DigitValue(key[1]) < Len(v.v)
         THEN Str(<<v.v[DigitValue(key[1]) + 1]>>) ELSE Undefined
    ELSE IF key \in Keys /\ OwnProps(v)[key] # Absent THEN OwnProps(v)[key]
    ELSE Undefined

\* angular.extend(dst, src) on property maps
Extend(dstKv, srcKv) == [k \in Keys |-> IF srcKv[k] # Absent THEN srcKv[k] ELSE dstKv[k]]

\* String(v), as String.prototype.replace converts its replacement
RECURSIVE JoinItems(_)
RECURSIVE JsToString(_)
JsToString(v) ==
    CASE v.t = "undefined" -> sUndefined
      [] v.t = "null" -> sNull
      [] v.t \in {"string", "number"} -> v.v
      [] v.t = "array" -> JoinItems(v.items)
      [] OTHER -> sObjectObject
JoinItems(items) ==
    IF items = <<>> THEN <<>>
    ELSE (IF Nullish(Head(items)) THEN <<>> ELSE JsToString(Head(items)))
         \o (IF Len(items) > 1 THEN <<",">> \o JoinItems(Tail(items)) ELSE <<>>)

(***************************************************************************)
(* Parameter extraction and URL templating.                                *)
(***************************************************************************)
RECURSIVE DecimalValue(_)
DecimalValue(s) ==
    IF s = <<>> THEN 0
    ELSE 10 * DecimalValue(SubSeq(s, 1, Len(s) - 1)) + DigitValue(s[Len(s)])

\* args[pos] with pos the string of digits the regular expression matched:
\* only the canonical decimal form names an element
ArgAt(args, pos) ==
    IF (Len(pos) = 1 \/ pos[1] # "0") /\ DecimalValue(pos) < Len(args)
    THEN args[DecimalValue(pos) + 1]
    ELSE Undefined

RECURSIVE WalkPath(_, _)
WalkPath(obj, keys) ==
    IF keys = <<>> \/ ~isDefined(obj) THEN obj
    ELSE WalkPath(IF obj # Null THEN Get(obj, Head(keys)) ELSE Undefined, Tail(keys))

\* a faulty variant of the lookup below: only the first key of the path is read
lookupFirstKey(obj, path) == WalkPath(obj, <<Head(SplitDots(path))>>)

lookupDottedPath(obj, path) == WalkPath(obj, SplitDots(path))

\* the inner function extract(str, _default) of extractParams, with the args and
\* data it closes over
extract(str, default, args, data) ==
    IF str = sEq THEN default
    ELSE IF CharAt(str, 0) = "@"
    THEN LET rest == Slice(str, 1)
             n == DigitPrefixLen(rest)
             pos == SubSeq(rest, 1, n)
         IN  IF n > 0 /\ pos = rest THEN ArgAt(args, pos)
             ELSE IF n > 0 /\ CharAt(rest, n) = "."
             THEN lookupDottedPath(ArgAt(args, pos), Slice(rest, n + 1))
             ELSE lookupDottedPath(data, rest)
    ELSE Str(str)

\* a map of parameter specifications: its entries in key order
ParamMap(entries) == [t |-> "map", entries |-> entries]

\* one key of a map specification
extractEntry(e, args, data) ==
    LET value == IF isFunction(e.value) THEN e.value.ret ELSE e.value
    IN  IF isString(value)
        THEN extract(value.v, IF Truthy(data) THEN Get(data, e.key) ELSE data, args, data)
        ELSE value

\* the result is null, the object a bare string resolved to, the extracted map
\* with its $$missing flag, or the error thrown
extractParams(params, args, data) ==
    IF isUndefined(params) THEN Null
    ELSE IF isString(params)
    THEN LET p == extract(params.v, data, args, data)
         IN  IF isObject(p) THEN p ELSE Err("ExpectedTypeError")
    ELSE IF params.t # "map" THEN Err("ExpectedTypeError")
    ELSE LET vals == [i \in DOMAIN params.entries |->
                        [key |-> params.entries[i].key,
                         value |-> extractEntry(params.entries[i], args, data)]]
         IN  [t |-> "extracted",
              entries |-> vals,
              missing |-> \E i \in DOMAIN vals : Nullish(vals[i].value)]

\* a faulty variant of the test below: $$missing is not looked at
MissingIgnored(params) == FALSE

\* params && params.$$missing
Missing(params) == params.t = "extracted" /\ params.missing

\* a faulty variant of replaceUrlParams below: the template is returned as it is
replaceUrlParamsNone(url, params) == url

\* the (key, value) pairs forEach visits
ParamPairs(params) ==
    CASE params.t = "extracted" -> params.entries
      [] params.t \in {"object", "array", "response"} ->
            LET present == SelectSeq(KeyOrder, LAMBDA k : OwnProps(params)[k] # Absent)
            IN  [i \in DOMAIN present |-> [key |-> present[i], value |-> OwnProps(params)[present[i]]]]
      [] OTHER -> <<>>

RECURSIVE ReplaceAll(_, _)
ReplaceAll(url, pairs) ==
    IF pairs = <<>> THEN url
    ELSE ReplaceAll(StringReplace(url, <<":">> \o Head(pairs).key, JsToString(Head(pairs).value)),
                    Tail(pairs))

replaceUrlParams(url, params) == ReplaceAll(url, ParamPairs(params))

(***************************************************************************)
(* Resource instances (wrappers).  kv holds the data keys, value the       *)
(* $value slot, length the $$length slot (-1: not owned), unresolved the   *)
(* $$unresolved flag and promise the request behind $promise (0: none).    *)
(***************************************************************************)
EmptyShell == [kv |-> NoKeys, value |-> Absent, length |-> -1, unresolved |-> FALSE, promise |-> 0]

\* a faulty variant of the constructor below: the keys of data replace the keys
\* the wrapper held
ResourceReplaced(self, data) ==
    IF isUndefined(data) \/ data = Null THEN self
    ELSE IF isObject(data)
    THEN [self EXCEPT !.kv = OwnProps(data),
                      !.length = IF isArray(data) THEN Len(data.items) ELSE @]
    ELSE [self EXCEPT !.value = data]

\* function Resource(data), applied to self as `this`
Resource(self, data) ==
    IF isUndefined(data) \/ data = Null THEN self
    ELSE IF isObject(data)
    THEN [self EXCEPT !.kv = Extend(@, OwnProps(data)),
                      !.length = IF isArray(data) THEN Len(data.items) ELSE @]
    ELSE [self EXCEPT !.value = data]

\* a faulty variant of the finalizer below: the flag is kept
KeepUnresolved(self) == self

\* AbstractResource.call(self, true): the finalizer
ClearUnresolved(self) == [self EXCEPT !.unresolved = FALSE]

\* AbstractResource.call(self, promise)
AttachPromise(self, p) == [self EXCEPT !.promise = p, !.unresolved = TRUE]

\* the items of the array extend([], this) builds: one past the highest index key
ArrayItems(kv) ==
    LET idx == {i \in 0..MaxLen : kv[IndexKey(i)] # Absent}
        n == IF idx = {} THEN 0 ELSE 1 + CHOOSE i \in idx : \A j \in idx : j <= i
    IN  [i \in 1..n |-> IF kv[IndexKey(i - 1)] # Absent THEN kv[IndexKey(i - 1)] ELSE Undefined]

\* the own properties of a wrapper without $value, as extend(data, this) copies
\* them: the data keys, $$length (-1: not owned), $promise (0: not owned) and
\* $$unresolved (FALSE: not owned)
OwnSlots(self) ==
    [kv |-> self.kv, length |-> self.length, promise |-> self.promise,
     unresolved |-> self.unresolved]

\* a faulty variant of the delete below: the copy keeps $promise
KeepPromise(data) == data

\* delete data.$promise
DeletePromise(data) == [data EXCEPT !.promise = 0]

\* the object or array $unwrap builds for a wrapper without $value
unwrapData(self) ==
    LET array == self.length >= 0
        data == OwnSlots(self)
        noLength == IF array THEN [data EXCEPT !.length = -1] ELSE data
        noPromise == DeletePromise(noLength)
    IN  [isArray |-> array, own |-> [noPromise EXCEPT !.unresolved = FALSE]]

\* AbstractResource.prototype.$unwrap; the value sent as a body holds the data
\* keys of what $unwrap built
unwrap(self) ==
    IF self.value # Absent THEN self.value
    ELSE IF unwrapData(self).isArray THEN Arr(ArrayItems(unwrapData(self).own.kv))
    ELSE Obj(unwrapData(self).own.kv)

(***************************************************************************)
(* The provider's configuration and the factory.                           *)
(***************************************************************************)
\* apiResourceProvider.baseUrl
baseUrl == sBase

\* apiResourceProvider.actionsDefaults, configured as in the documentation
actionsDefaults ==
    (sSave :> [method |-> sPostLower]) @@ (sQuery :> [method |-> sGet, isArray |-> TRUE])

\* the interceptors pushInterceptor registered, instantiated by $get: the first
\* has the request and response handlers, the second the two error handlers
instancedInterceptors ==
    << [request |-> TRUE, response |-> TRUE],
       [requestError |-> TRUE, responseError |-> TRUE] >>

defaultConfig == [interceptorLimit |-> Len(instancedInterceptors)]

\* angular.extend on records of optional properties
ExtendRec(a, b) == [k \in DOMAIN a \cup DOMAIN b |-> IF k \in DOMAIN b THEN b[k] ELSE a[k]]

\* a truthy optional property
Flag(rec, f) == f \in DOMAIN rec /\ rec[f]

Has(rec, f) == f \in DOMAIN rec

\* the resourceConfig argument: undefined, or an object that may own interceptorLimit
ConfigObject(fields) == [t |-> "object", fields |-> fields]

\* a faulty variant of the verification below: nothing is verified
verifyConfigSkipped(config, defaults) == "ok"

\* verifyConfig; every interceptorLimit of the scenarios is a number, so the
\* angular.isNumber test of line 488 passes
verifyConfig(config, defaults) ==
    IF isUndefined(config) THEN "ok"
    ELSE IF ~isObject(config) THEN "ExpectedTypeError"
    ELSE IF Has(config.fields, "interceptorLimit")
            /\ config.fields.interceptorLimit > defaults.interceptorLimit
    THEN "Error"
    ELSE "ok"

\* action = extend({method: name}, actionsDefaults[name], action)
MergeAction(name, action) ==
    ExtendRec(ExtendRec([method |-> name],
                        IF name \in DOMAIN actionsDefaults THEN actionsDefaults[name] ELSE <<>>),
              action)

\* a faulty variant of the test below: the regular expression without its i flag
hasBodyCaseSensitive(action) ==
    Flag(action, "hasData") \/ action.method \in {sPOST, sPUT, sPATCH}

hasBody(action) ==
    Flag(action, "hasData") \/ UpperCase(action.method) \in {sPOST, sPUT, sPATCH}

\* the factory threw: no class, no action method
NoResource(error) == [status |-> error, actions |-> <<>>, resourceConfig |-> <<>>]

\* function ResourceFactory(route, actions, resourceConfig): the class it returns,
\* or the error it throws
ResourceFactory(route, actions, resourceConfig) ==
    IF route = <<>> THEN NoResource("Error")
    ELSE IF verifyConfig(resourceConfig, defaultConfig) # "ok"
    THEN NoResource(verifyConfig(resourceConfig, defaultConfig))
    ELSE [status |-> "ok",
          actions |-> [n \in DOMAIN actions |-> MergeAction(n, actions[n])],
          resourceConfig |->
              ExtendRec(ExtendRec([url |-> baseUrl \o route], defaultConfig),
                        IF isUndefined(resourceConfig) THEN <<>> ELSE resourceConfig.fields)]

(***************************************************************************)
(* performAction: the synchronous part, and the chain of callbacks it      *)
(* attaches.                                                               *)
(***************************************************************************)
\* the request configuration, the null of the short circuit, or the error thrown
BuildRequest(action, resourceConfig, data, args) ==
    LET url0 == IF Has(action, "subRoute") THEN resourceConfig.url \o action.subRoute
                ELSE resourceConfig.url
        urlParams == extractParams(IF Has(action, "params") THEN action.params ELSE Undefined,
                                   args, data)
        url == replaceUrlParams(url0, urlParams)
        queryParams == extractParams(IF Has(action, "queryParams") THEN action.queryParams
                                     ELSE Undefined, args, data)
    IN  IF urlParams.t = "error" THEN [outcome |-> "throw", error |-> urlParams.e]
        ELSE IF queryParams.t = "error" THEN [outcome |-> "throw", error |-> queryParams.e]
        ELSE IF Flag(action, "skipOnMissingParams") /\ (Missing(urlParams) \/ Missing(queryParams))
        THEN [outcome |-> "skip"]
        ELSE [outcome |-> "request",
              config |-> [t |-> "config",
                          method |-> action.method,
                          url |-> url,
                          data |-> IF hasBody(action) THEN data ELSE Absent,
                          params |-> queryParams,
                          interceptorLimit |-> resourceConfig.interceptorLimit]]

Slot(kind, i) == [kind |-> kind, i |-> i]

\* throughRequestInterceptors: one then() per interceptor below the limit that has
\* a request or a requestError handler
RequestSlots(limit) ==
    LET idx == SelectSeq([j \in 1..limit |-> j],
                         LAMBDA j : Has(instancedInterceptors[j], "request")
                                    \/ Has(instancedInterceptors[j], "requestError"))
    IN  [k \in DOMAIN idx |-> Slot("request", idx[k])]

\* a faulty variant of the loop below: the response handlers are attached from the
\* last interceptor to the first
ResponseSlotsReversed(limit) ==
    LET idx == SelectSeq([j \in 1..limit |-> limit + 1 - j],
                         LAMBDA j : Has(instancedInterceptors[j], "response")
                                    \/ Has(instancedInterceptors[j], "responseError"))
    IN  [k \in DOMAIN idx |-> Slot("response", idx[k])]

\* throughResponseInterceptors
ResponseSlots(limit) ==
    LET idx == SelectSeq([j \in 1..limit |-> j],
                         LAMBDA j : Has(instancedInterceptors[j], "response")
                                    \/ Has(instancedInterceptors[j], "responseError"))
    IN  [k \in DOMAIN idx |-> Slot("response", idx[k])]

\* a faulty variant of the chain below: the caller attaches the merge before the
\* finalizer
FullChainMergeFirst(action, limit) ==
    RequestSlots(limit) \o <<Slot("transport", 0)>> \o ResponseSlots(limit)
    \o <<Slot("unwrap", 0)>>
    \o (IF Has(action, "postProcess") THEN <<Slot("postProcess", 0)>> ELSE <<>>)
    \o <<Slot("then", 0), Slot("finally", 0)>>

\* the callbacks attached, in order, behind $q.when(actionConfig) and by the caller
FullChain(action, limit) ==
    RequestSlots(limit) \o <<Slot("transport", 0)>> \o ResponseSlots(limit)
    \o <<Slot("unwrap", 0)>>
    \o (IF Has(action, "postProcess") THEN <<Slot("postProcess", 0)>> ELSE <<>>)
    \o <<Slot("finally", 0), Slot("then", 0)>>

\* a faulty variant of the chain below: the short circuit returns before the
\* finalizer is attached
SkipChainNoFinally == <<Slot("then", 0)>>

\* behind $q.when(null)
SkipChain == <<Slot("finally", 0), Slot("then", 0)>>

\* whether the callback of a slot runs for a fulfilled or a rejected promise
Runs(slot, rej) ==
    CASE slot.kind = "request" ->
            Has(instancedInterceptors[slot.i], IF rej THEN "requestError" ELSE "request")
      [] slot.kind = "response" ->
            Has(instancedInterceptors[slot.i], IF rej THEN "responseError" ELSE "response")
      [] slot.kind = "finally" -> TRUE
      [] OTHER -> ~rej

\* the next callback that runs after position pos; one past the end: settled
NextPos(chain, pos, rej) ==
    LET later == {k \in (pos + 1)..Len(chain) : Runs(chain[k], rej)}
    IN  IF later = {} THEN Len(chain) + 1
        ELSE CHOOSE k \in later : \A j \in later : k <= j

(***************************************************************************)
(* Inputs: the factories created, the arguments of the calls, and what the *)
(* transport and the handlers of the interceptors answer.                  *)
(***************************************************************************)
ObjId5 == Lit(sId :> Num(<<"5">>))
ObjAnn == Lit(sName :> Str(sAnn))
ObjBob == Lit(sName :> Str(sBob))
Num7 == Num(<<"7">>)

\* the arrays of objects of each length
ArrayOf(item, n) == Arr([i \in 1..n |-> item])

IdParams == ParamMap(<<[key |-> sId, value |-> Str(sAtId)]>>)
Arg0Params == ParamMap(<<[key |-> sId, value |-> Str(sAt0)]>>)
EqParams == ParamMap(<<[key |-> sId, value |-> Str(sEq)]>>)

NoConfig == Undefined

Limit(k) == ConfigObject([interceptorLimit |-> k])

\* a factory created, and what its callers and the transport supply:
\* args, the argument lists of the static calls; iargs, those of the instance
\* calls; responses, the data of the responses the transport fulfils with
Scenario(actions, config, args, iargs, responses) ==
    [route |-> sUserRoute, actions |-> actions, config |-> config,
     args |-> args, iargs |-> iargs, responses |-> responses]

\* createFactory('/user/:id', {get: {method:'GET'}, save: {method:'POST', params:{id:'@id'}}})
UserActions ==
    (sGet :> [method |-> sGET]) @@ (sSave :> [method |-> sPOST, params |-> IdParams])

UserScenarios == { Scenario(UserActions, Limit(0), {<<ObjId5>>}, {<<>>}, {ObjAnn}) }

\* one singular action, with and without a body, with and without ignoreResponse
SingularScenarios ==
    { Scenario(sAct :> [method |-> m, ignoreResponse |-> ign], Limit(0),
               {<<>>, <<ObjId5>>}, {<<>>}, {Null, Num7, ObjAnn}) :
        m \in {sGET, sPostLower}, ign \in BOOLEAN }

\* one collection action, with and without a body, with and without ignoreResponse
CollectionScenarios ==
    { Scenario(sAct :> [method |-> m, isArray |-> TRUE, ignoreResponse |-> ign], Limit(0),
               {<<>>, <<ObjId5>>, <<ArrayOf(ObjId5, 1)>>}, {<<>>},
               {ObjAnn} \cup {ArrayOf(ObjAnn, n) : n \in 0..MaxLen}) :
        m \in {sGET, sPostLower}, ign \in BOOLEAN }

\* skipOnMissingParams with a path parameter taken from argument 0, called through
\* the class and on an instance
SkipPathScenarios ==
    { Scenario(sAct :> [method |-> sGET, skipOnMissingParams |-> TRUE, params |-> Arg0Params],
               Limit(0), {<<>>, <<Num7>>}, {<<>>, <<Num7>>}, {ObjAnn}) }

\* skipOnMissingParams with a query parameter taken from argument 0, on a collection
SkipQueryScenarios ==
    { Scenario(sAct :> [method |-> sPostLower, isArray |-> TRUE, skipOnMissingParams |-> TRUE,
                        queryParams |-> Arg0Params],
               Limit(0), {<<ArrayOf(ObjId5, 1)>>, <<ArrayOf(ObjId5, 1), Num7>>}, {<<>>},
               {ArrayOf(ObjAnn, 1)}) }

\* skipOnMissingParams with a path parameter defaulted from the body ('=')
SkipDefaultScenarios ==
    { Scenario(sAct :> [method |-> sPostLower, skipOnMissingParams |-> TRUE, params |-> EqParams],
               Limit(0), {<<ObjAnn>>, <<ObjId5>>}, {<<>>}, {ObjAnn}) }

\* a missing path parameter without skipOnMissingParams
NoSkipScenarios ==
    { Scenario(sAct :> [method |-> sGET, skipOnMissingParams |-> FALSE, params |-> Arg0Params],
               Limit(0), {<<>>}, {}, {ObjAnn}) }

SkipScenarios ==
    SkipPathScenarios \cup SkipQueryScenarios \cup SkipDefaultScenarios \cup NoSkipScenarios

\* body-bearing by hasData or by the method in other letter cases, and not; the
\* params of the Put action name argument 0, which must then be an object
MethodScenarios ==
    { Scenario(sAct :> a, Limit(0), {<<>>, <<Null>>, <<ObjId5>>}, {<<>>}, {ObjAnn}) :
        a \in { [method |-> sGET, hasData |-> TRUE],
                [method |-> sPutMixed, params |-> Str(sAt0)],
                [method |-> sPatchLower, postProcess |-> TRUE],
                [method |-> sDELETE] } }

\* a singular action behind the first interceptor, and a factory created with an
\* interceptorLimit one past the registered count
InterceptorScenarios ==
    { Scenario(sAct :> [method |-> m], Limit(1), {<<ObjId5>>}, {<<>>}, {ObjAnn}) :
        m \in {sGET, sPostLower} }
    \cup { Scenario(sAct :> [method |-> sGET], Limit(Len(instancedInterceptors) + 1),
                    {<<>>}, {<<>>}, {ObjAnn}) }

\* a query parameter taken from argument 0 or 1, of an action with and without a
\* body whose data has the parameter's key
ArgumentScenarios ==
    { Scenario(sAct :> [method |-> m,
                        queryParams |-> ParamMap(<<[key |-> sId, value |-> Str(at)]>>)],
               Limit(0), {<<ObjId5, Num7>>, <<ObjId5, ObjAnn, Num7>>}, {<<Num7, ObjAnn>>},
               {ObjAnn}) :
        m \in {sGET, sPostLower}, at \in {sAt0, sAt1} }

\* the first arguments a dotted path a.b is looked up on: nothing on the path, a
\* null or a missing key on it, a value and a null at its end
PathArguments ==
    { Null, Num7, Lit(<<"a">> :> Null), Lit(<<"a">> :> Lit(sId :> Num7)),
      Lit(<<"a">> :> Lit(<<"b">> :> Num7)), Lit(<<"a">> :> Lit(<<"b">> :> Null)) }

\* two query parameters, one looked up along '@0.a.b' and one taken from argument 1,
\* of an action called with first arguments of each kind
PathScenarios ==
    { Scenario(sAct :> [method |-> sGET,
                        queryParams |-> ParamMap(<<[key |-> sId, value |-> Str(sAt0ab)],
                                                   [key |-> sName, value |-> Str(sAt1)]>>)],
               Limit(0), {<<>>, <<x>>, <<x, Num7>>}, {<<>>}, {Null}) :
        x \in PathArguments }

\* what .each is called with: an object, the empty array, an array of two
\* different bodies, the longest array of bodies, and an array whose second
\* element is null
EachInputs ==
    { ObjId5, Arr(<<>>), Arr(<<ObjId5, ObjAnn>>), Arr(<<ObjId5, Null>>),
      ArrayOf(ObjId5, MaxLen) }

\* a singular action with and without a body, called through .each
EachScenarios ==
    { Scenario(sAct :> [method |-> m], Limit(0), {<<x>> : x \in EachInputs}, {},
               {ObjAnn, ObjBob}) :
        m \in {sGET, sPostLower} }

\* a collection action with a body beside a singular action: the instance
\* method of the singular action exists on the elements of the collection
ElementScenarios ==
    { Scenario((sAct :> [method |-> sPostLower, isArray |-> TRUE])
               @@ (sSave :> [method |-> sPostLower]),
               Limit(0), {<<ArrayOf(ObjId5, 1)>>}, {<<>>}, {ArrayOf(ObjAnn, 1)}) }

\* a response that overwrites the key id of the body {id: 5} and adds a key
ObjId7Ann == Lit((sId :> Num7) @@ (sName :> Str(sAnn)))

\* a singular action with a body whose responses are null, a number, an object
\* and an array
MergeScenarios ==
    { Scenario(sAct :> [method |-> sPostLower], Limit(0), {<<ObjId5>>}, {<<>>},
               {Null, Num7, ObjId7Ann, ArrayOf(ObjAnn, 1)}) }

\* a singular action with a body, called with an object and with an array
UnwrapScenarios ==
    { Scenario(sAct :> [method |-> sPostLower], Limit(0),
               {<<>>, <<ObjId5>>, <<ArrayOf(Num7, 1)>>}, {<<>>}, {ObjAnn}) }

\* a singular action behind every interceptor, called through the class only
ErrorHandlerScenarios == { Scenario(sAct :> [method |-> sGET], NoConfig, {<<>>}, {}, {ObjAnn}) }

\* the same action behind every interceptor and behind the first one only, and a
\* factory created with an interceptorLimit one past the registered count
PipelineScenarios ==
    ErrorHandlerScenarios
    \cup { Scenario(sAct :> [method |-> sGET], Limit(k), {<<>>}, {}, {ObjAnn}) :
             k \in {1, Len(instancedInterceptors) + 1} }

Scenarios ==
    UserScenarios \cup SingularScenarios \cup CollectionScenarios \cup SkipScenarios
    \cup MethodScenarios \cup InterceptorScenarios \cup ErrorHandlerScenarios
    \cup UnwrapScenarios \cup ArgumentScenarios \cup PathScenarios \cup EachScenarios
    \cup ElementScenarios \cup MergeScenarios

Fulfilled(v) == [rej |-> FALSE, val |-> v]
Rejected(reason) == [rej |-> TRUE, val |-> reason]

\* what a request handler may do with the configuration
RequestOutcomes(config) == { Fulfilled(config), Rejected(Err("interceptor")) }

\* what a requestError handler may do: reject again, or recover with a configuration
RequestErrorOutcomes(reason, config) == { Rejected(reason), Fulfilled(config) }

\* what $http may answer
TransportOutcomes(responses) ==
    { Fulfilled(Response(d)) : d \in responses } \cup { Rejected(Err("http")) }

\* what a response handler may do: return the response, return its data, or throw
ResponseOutcomes(response) ==
    { Fulfilled(response),
      Fulfilled(IF response.t = "response" THEN response.data ELSE response),
      Rejected(Err("interceptor")) }

\* what a responseError handler may do: reject again, or recover with a value
ResponseErrorOutcomes(reason) == { Rejected(reason), Fulfilled(Undefined), Fulfilled(ObjBob) }

\* what postProcess may do
PostProcessOutcomes(data) == { Fulfilled(data), Fulfilled(ObjBob), Rejected(Err("postProcess")) }

(***************************************************************************)
(* State.                                                                  *)
(***************************************************************************)
VARIABLES
    factory,    \* the Resource class the factory returned, or the error it threw
    wr,         \* the Resource instances created, in order of creation
    arrs,       \* the arrays the collection actions returned
    req,        \* the promise chain of every action call that issued one
    ret,        \* the outcome of the call just made (none after a callback ran)
    env         \* what the callers and the transport of this behaviour supply

vars == <<factory, wr, arrs, req, ret, env>>

NoCall == [op |-> "none", name |-> <<>>, args |-> <<>>, self |-> 0,
           outcome |-> "none", error |-> "", id |-> 0]

\* a call that threw: the method and the error
Thrown(op, name, error) ==
    [op |-> op, name |-> name, args |-> <<>>, self |-> 0,
     outcome |-> "throw", error |-> error, id |-> 0]

\* a call that returned: its arguments, the instance it was made on (0: the class)
\* and the wrapper, the array or the promise returned
Returned(op, name, args, self, id) ==
    [op |-> op, name |-> name, args |-> args, self |-> self,
     outcome |-> "return", error |-> "", id |-> id]

ChainOf(r) ==
    IF r.skipped THEN SkipChain
    ELSE FullChain(factory.actions[r.name], r.config.interceptorLimit)

Settled(r) == r.pos > Len(ChainOf(r))

\* the chain performAction returns, extended by the caller's finally and then
NewRequest(name, form, target, built) ==
    LET skipped == built.outcome = "skip"
        config == IF skipped THEN Null ELSE built.config
        chain == IF skipped THEN SkipChain
                 ELSE FullChain(factory.actions[name], config.interceptorLimit)
    IN  [name |-> name, form |-> form, target |-> target, skipped |-> skipped,
         config |-> config, pos |-> NextPos(chain, 0, FALSE), inflight |-> FALSE,
         val |-> config, rej |-> FALSE, raw |-> Undefined, trace |-> <<>>]

\* the state after ResourceFactory returned or threw, for one of the scenarios
InitOf(scenarios) ==
    /\ \E s \in scenarios :
          /\ factory = ResourceFactory(s.route, s.actions, s.config)
          /\ env = [config |-> s.config, args |-> s.args, iargs |-> s.iargs,
                    responses |-> s.responses]
    /\ wr = <<>>
    /\ arrs = <<>>
    /\ req = <<>>
    /\ ret = NoCall

Init == InitOf(Scenarios)

(***************************************************************************)
(* The action methods.                                                     *)
(***************************************************************************)
Throw(op, name, error) ==
    /\ ret' = Thrown(op, name, error)
    /\ UNCHANGED <<factory, env, wr, arrs, req>>

\* a faulty variant of the test below: the flag is not looked at
UnresolvedIgnored(self) == FALSE

\* the test of line 353: if (this.$$unresolved) throw UnresolvedRequest(name)
Unresolved(self) == self.unresolved

\* a faulty variant of the slice below: the body stays in args
SliceArgumentsAll(action, arguments) == arguments

\* args = Array.prototype.slice.call(arguments, hasBody)
SliceArguments(action, arguments) ==
    IF hasBody(action) THEN Slice(arguments, 1) ELSE arguments

\* Resource[name] = function (data) {...}, called with the list `arguments`
StaticCall(name, arguments) ==
    /\ factory.status = "ok"
    /\ name \in DOMAIN factory.actions
    /\ LET action == factory.actions[name]
           first == IF Len(arguments) >= 1 THEN arguments[1] ELSE Undefined
           args == SliceArguments(action, arguments)
           data == IF hasBody(action) THEN first ELSE Null
           built == BuildRequest(action, factory.resourceConfig, data, args)
           r == Len(req) + 1
       IN  IF hasBody(action) /\ (isUndefined(first) \/ first = Null)
           THEN Throw("static", name, "MissingBodyError")
           ELSE IF Flag(action, "isArray")
           THEN IF hasBody(action) /\ ~isArray(data)
                THEN Throw("static", name, "ExpectedArrayError")
                ELSE IF built.outcome = "throw"
                THEN Throw("static", name, built.error)
                ELSE LET items == IF hasBody(action) THEN data.items ELSE <<>>
                     IN  /\ Len(req) < MaxRequests
                         /\ wr' = wr \o [i \in DOMAIN items |-> Resource(EmptyShell, items[i])]
                         /\ arrs' = Append(arrs,
                                AttachPromise([items |-> [i \in DOMAIN items |-> Len(wr) + i],
                                               unresolved |-> FALSE, promise |-> 0], r))
                         /\ req' = Append(req, NewRequest(name, "collection", Len(arrs) + 1, built))
                         /\ ret' = Returned("static", name, arguments, 0, Len(arrs) + 1)
                         /\ UNCHANGED <<factory, env>>
           ELSE IF built.outcome = "throw"
                THEN Throw("static", name, built.error)
                ELSE /\ Len(req) < MaxRequests
                     /\ wr' = Append(wr, AttachPromise(Resource(EmptyShell, data), r))
                     /\ req' = Append(req, NewRequest(name, "static", Len(wr) + 1, built))
                     /\ ret' = Returned("static", name, arguments, 0, Len(wr) + 1)
                     /\ UNCHANGED <<factory, env, arrs>>

\* Resource.prototype['$' + name] = function () {...}, called on instance w
InstanceCall(w, name, arguments) ==
    /\ factory.status = "ok"
    /\ name \in DOMAIN factory.actions
    /\ ~Flag(factory.actions[name], "isArray")
    /\ w \in DOMAIN wr
    /\ LET action == factory.actions[name]
           data == unwrap(wr[w])
           built == BuildRequest(action, factory.resourceConfig, data, arguments)
           r == Len(req) + 1
       IN  IF Unresolved(wr[w])
           THEN Throw("instance", name, "UnresolvedRequest")
           ELSE IF built.outcome = "throw"
           THEN Throw("instance", name, built.error)
           ELSE /\ Len(req) < MaxRequests
                /\ wr' = [wr EXCEPT ![w] = AttachPromise(@, r)]
                /\ req' = Append(req, NewRequest(name, "instance", w, built))
                /\ ret' = Returned("instance", name, arguments, w, r)
                /\ UNCHANGED <<factory, env, arrs>>

\* a faulty variant of the mapping below: only the first element is visited
MapFirst(arrdata) == IF arrdata.items = <<>> THEN <<>> ELSE <<Head(arrdata.items)>>

\* arrdata.map(...): the elements visited, in order
MapItems(arrdata) == arrdata.items

\* function (data) { return Resource[name](data); } for one element, on the
\* wrappers and requests st.wr and st.req: the singular branch of the static call
\* with the element as its only argument; st.error names what it threw
EachCall(st, name, item) ==
    LET action == factory.actions[name]
        args == SliceArguments(action, <<item>>)
        data == IF hasBody(action) THEN item ELSE Null
        built == BuildRequest(action, factory.resourceConfig, data, args)
        r == Len(st.req) + 1
    IN  IF hasBody(action) /\ (isUndefined(item) \/ item = Null)
        THEN [st EXCEPT !.error = "MissingBodyError"]
        ELSE IF built.outcome = "throw"
        THEN [st EXCEPT !.error = built.error]
        ELSE [wr |-> Append(st.wr, AttachPromise(Resource(EmptyShell, data), r)),
              req |-> Append(st.req, NewRequest(name, "static", Len(st.wr) + 1, built)),
              ids |-> Append(st.ids, Len(st.wr) + 1),
              error |-> ""]

\* the map over the elements: it stops at the first call that throws
RECURSIVE EachFrom(_, _, _)
EachFrom(st, name, items) ==
    IF items = <<>> \/ st.error # "" THEN st
    ELSE EachFrom(EachCall(st, name, Head(items)), name, Tail(items))

\* Resource[name].each = function (arrdata) {...}; the array it returns is kept
\* in arrs, without $promise and $$unresolved
Each(name, arrdata) ==
    /\ factory.status = "ok"
    /\ name \in DOMAIN factory.actions
    /\ ~Flag(factory.actions[name], "isArray")
    /\ IF ~isArray(arrdata)
       THEN Throw("each", name, "ExpectedTypeError")
       ELSE LET done == EachFrom([wr |-> wr, req |-> req, ids |-> <<>>, error |-> ""],
                                 name, MapItems(arrdata))
            IN  /\ Len(req) + Len(arrdata.items) <= MaxRequests
                /\ Len(arrs) < MaxRequests
                /\ wr' = done.wr
                /\ req' = done.req
                /\ IF done.error # ""
                   THEN /\ ret' = Thrown("each", name, done.error)
                        /\ UNCHANGED arrs
                   ELSE /\ arrs' = Append(arrs, [items |-> done.ids, unresolved |-> FALSE,
                                                 promise |-> 0])
                        /\ ret' = Returned("each", name, <<arrdata>>, 0, Len(arrs) + 1)
                /\ UNCHANGED <<factory, env>>

(***************************************************************************)
(* The callbacks of a chain, one action each.                              *)
(***************************************************************************)
AtSlot(r, kind) ==
    /\ r \in DOMAIN req
    /\ ~Settled(req[r])
    /\ ChainOf(req[r])[req[r].pos].kind = kind

Event(e, i) == [e |-> e, i |-> i]

\* the promise of request r moves on with outcome o, handler event ev logged
Advance(r, o, ev) ==
    req' = [req EXCEPT ![r] = [@ EXCEPT !.val = o.val, !.rej = o.rej,
                                        !.pos = NextPos(ChainOf(req[r]), req[r].pos, o.rej),
                                        !.trace = @ \o ev]]

\* promise.then(interceptor.request, interceptor.requestError)
RequestInterceptor(r) ==
    /\ AtSlot(r, "request")
    /\ LET i == ChainOf(req[r])[req[r].pos].i
       IN  \E o \in IF req[r].rej THEN RequestErrorOutcomes(req[r].val, req[r].config)
                    ELSE RequestOutcomes(req[r].val) :
               Advance(r, o, <<Event(IF req[r].rej THEN "requestError" ELSE "request", i)>>)
    /\ ret' = NoCall
    /\ UNCHANGED <<factory, env, wr, arrs>>

\* promise.then(function (config) { return $http(config)...: the transport is invoked
TransportInvoke(r) ==
    /\ AtSlot(r, "transport")
    /\ ~req[r].inflight
    /\ req' = [req EXCEPT ![r] = [@ EXCEPT !.inflight = TRUE,
                                        !.trace = Append(@, Event("transport", 0))]]
    /\ ret' = NoCall
    /\ UNCHANGED <<factory, env, wr, arrs>>

\* $http settles; on success rawResponse = response
TransportSettle(r) ==
    /\ AtSlot(r, "transport")
    /\ req[r].inflight
    /\ \E o \in TransportOutcomes(env.responses) :
          req' = [req EXCEPT ![r] = [@ EXCEPT !.val = o.val, !.rej = o.rej,
                                          !.raw = IF o.rej THEN @ ELSE o.val,
                                          !.pos = NextPos(ChainOf(req[r]), req[r].pos, o.rej),
                                          !.inflight = FALSE]]
    /\ ret' = NoCall
    /\ UNCHANGED <<factory, env, wr, arrs>>

\* promise.then(interceptor.response, interceptor.responseError)
ResponseInterceptor(r) ==
    /\ AtSlot(r, "response")
    /\ LET i == ChainOf(req[r])[req[r].pos].i
       IN  \E o \in IF req[r].rej THEN ResponseErrorOutcomes(req[r].val)
                    ELSE ResponseOutcomes(req[r].val) :
               Advance(r, o, <<Event(IF req[r].rej THEN "responseError" ELSE "response", i)>>)
    /\ ret' = NoCall
    /\ UNCHANGED <<factory, env, wr, arrs>>

\* return rawResponse === response ? response.data : response
UnwrapResponse(raw, response) ==
    IF raw = response
    THEN IF Nullish(response) THEN Rejected(Err("TypeError")) ELSE Fulfilled(response.data)
    ELSE Fulfilled(response)

Unwrap(r) ==
    /\ AtSlot(r, "unwrap")
    /\ Advance(r, UnwrapResponse(req[r].raw, req[r].val), <<>>)
    /\ ret' = NoCall
    /\ UNCHANGED <<factory, env, wr, arrs>>

\* if (action.postProcess) promise = promise.then(action.postProcess)
PostProcess(r) ==
    /\ AtSlot(r, "postProcess")
    /\ \E o \in PostProcessOutcomes(req[r].val) : Advance(r, o, <<Event("postProcess", 0)>>)
    /\ ret' = NoCall
    /\ UNCHANGED <<factory, env, wr, arrs>>

\* .finally(AbstractResource.bind(target, true)): the outcome passes through
Finalizer(r) ==
    /\ AtSlot(r, "finally")
    /\ Advance(r, [rej |-> req[r].rej, val |-> req[r].val], <<>>)
    /\ IF req[r].form = "collection"
       THEN /\ arrs' = [arrs EXCEPT ![req[r].target] = ClearUnresolved(@)]
            /\ UNCHANGED wr
       ELSE /\ wr' = [wr EXCEPT ![req[r].target] = ClearUnresolved(@)]
            /\ UNCHANGED arrs
    /\ ret' = NoCall
    /\ UNCHANGED <<factory, env>>

\* a faulty variant of the test below: ignoreResponse alone decides
IgnoresResponseWithoutBody(action) == Flag(action, "ignoreResponse")

\* a faulty variant of the test below: ignoreResponse is not looked at
IgnoresResponseNever(action) == FALSE

\* if (hasBody && action.ignoreResponse) return data;
IgnoresResponse(action) == hasBody(action) /\ Flag(action, "ignoreResponse")

\* the values the caller's promise fulfils with: the wrapper, or the array
WrapperRef(w) == [t |-> "wrapper", id |-> w]
ArrayRef(a) == [t |-> "resources", id |-> a]

\* .then(updateResource(resource))
UpdateResource(r) ==
    /\ AtSlot(r, "then")
    /\ req[r].form # "collection"
    /\ IF IgnoresResponse(factory.actions[req[r].name])
       THEN /\ Advance(r, Fulfilled(req[r].val), <<>>)
            /\ UNCHANGED wr
       ELSE /\ wr' = [wr EXCEPT ![req[r].target] = Resource(@, req[r].val)]
            /\ Advance(r, Fulfilled(WrapperRef(req[r].target)), <<>>)
    /\ ret' = NoCall
    /\ UNCHANGED <<factory, env, arrs>>

\* function modifyResource(item, index) { Resource.call(resources[index], item); }
\* Beyond the end of resources `this` is undefined: in strict mode the call throws
\* a TypeError unless item is undefined or null
modifyResource(wrs, resources, item, index) ==
    IF index < Len(resources)
    THEN [wr |-> [wrs EXCEPT ![resources[index + 1]] = Resource(@, item)], threw |-> FALSE]
    ELSE [wr |-> wrs, threw |-> ~(isUndefined(item) \/ item = Null)]

\* data.forEach(modifyResource): stops at the first call that throws
RECURSIVE ModifyEach(_, _, _, _)
ModifyEach(wrs, resources, items, index) ==
    IF index >= Len(items) THEN [wr |-> wrs, threw |-> FALSE]
    ELSE LET step == modifyResource(wrs, resources, items[index + 1], index)
         IN  IF step.threw THEN step ELSE ModifyEach(step.wr, resources, items, index + 1)

\* .then(updateResourceArray(resources, hasBody ? modifyResource : pushNewResource))
UpdateResourceArray(r) ==
    /\ AtSlot(r, "then")
    /\ req[r].form = "collection"
    /\ LET action == factory.actions[req[r].name]
           a == req[r].target
           data == req[r].val
       IN  IF IgnoresResponse(action)
           THEN /\ Advance(r, Fulfilled(data), <<>>)
                /\ UNCHANGED <<wr, arrs>>
           ELSE IF ~isDefined(data) \/ data = Null
           THEN /\ Advance(r, Fulfilled(ArrayRef(a)), <<>>)
                /\ UNCHANGED <<wr, arrs>>
           ELSE IF ~isArray(data)
           THEN /\ Advance(r, Rejected(Err("ExpectedArrayError")), <<>>)
                /\ UNCHANGED <<wr, arrs>>
           ELSE IF hasBody(action)
           THEN LET done == ModifyEach(wr, arrs[a].items, data.items, 0)
                IN  /\ wr' = done.wr
                    /\ Advance(r, IF done.threw THEN Rejected(Err("TypeError"))
                                  ELSE Fulfilled(ArrayRef(a)), <<>>)
                    /\ UNCHANGED arrs
           ELSE \* pushNewResource: resources.push(new Resource(item))
                /\ wr' = wr \o [i \in DOMAIN data.items |-> Resource(EmptyShell, data.items[i])]
                /\ arrs' = [arrs EXCEPT ![a].items = @ \o [i \in DOMAIN data.items |-> Len(wr) + i]]
                /\ Advance(r, Fulfilled(ArrayRef(a)), <<>>)
    /\ ret' = NoCall
    /\ UNCHANGED <<factory, env>>

StaticCalls ==
    \E name \in DOMAIN factory.actions, arguments \in env.args : StaticCall(name, arguments)

InstanceCalls ==
    \E w \in DOMAIN wr, name \in DOMAIN factory.actions, arguments \in env.iargs :
        InstanceCall(w, name, arguments)

EachCalls ==
    \E name \in DOMAIN factory.actions, arguments \in env.args :
        Len(arguments) = 1 /\ Each(name, arguments[1])

Next ==
    \/ StaticCalls
    \/ InstanceCalls
    \/ EachCalls
    \/ \E r \in DOMAIN req : RequestInterceptor(r)
    \/ \E r \in DOMAIN req : TransportInvoke(r)
    \/ \E r \in DOMAIN req : TransportSettle(r)
    \/ \E r \in DOMAIN req : ResponseInterceptor(r)
    \/ \E r \in DOMAIN req : Unwrap(r)
    \/ \E r \in DOMAIN req : PostProcess(r)
    \/ \E r \in DOMAIN req : Finalizer(r)
    \/ \E r \in DOMAIN req : UpdateResource(r)
    \/ \E r \in DOMAIN req : UpdateResourceArray(r)

\* every factory of the scenarios
Spec == Init /\ [][Next]_vars

(***************************************************************************)
(* The same program, one family of factories at a time.  A next-state      *)
(* relation names the callbacks the chains of these factories hold: an     *)
(* interceptor callback is attached only below the interceptorLimit, the   *)
(* postProcess callback only when the action has one, and the instance     *)
(* methods exist only for the singular actions.                            *)
(***************************************************************************)
\* singular actions, no interceptor
NextSingular ==
    \/ StaticCalls
    \/ InstanceCalls
    \/ \E r \in DOMAIN req : TransportInvoke(r)
    \/ \E r \in DOMAIN req : TransportSettle(r)
    \/ \E r \in DOMAIN req : Unwrap(r)
    \/ \E r \in DOMAIN req : Finalizer(r)
    \/ \E r \in DOMAIN req : UpdateResource(r)

SpecSingular == InitOf(SingularScenarios) /\ [][NextSingular]_vars

\* the factory of the documentation's example
SpecUser == InitOf(UserScenarios) /\ [][NextSingular]_vars

\* a singular action whose wrappers are created from objects and from arrays
SpecUnwrap == InitOf(UnwrapScenarios) /\ [][NextSingular]_vars

\* a singular action with a positional query parameter
SpecArguments == InitOf(ArgumentScenarios) /\ [][NextSingular]_vars

\* a singular action with a query parameter looked up along a dotted path
SpecPath == InitOf(PathScenarios) /\ [][NextSingular]_vars

\* a singular action called through .each only
NextEach ==
    \/ EachCalls
    \/ \E r \in DOMAIN req : TransportInvoke(r)
    \/ \E r \in DOMAIN req : TransportSettle(r)
    \/ \E r \in DOMAIN req : Unwrap(r)
    \/ \E r \in DOMAIN req : Finalizer(r)
    \/ \E r \in DOMAIN req : UpdateResource(r)

SpecEach == InitOf(EachScenarios) /\ [][NextEach]_vars

\* a singular action whose responses are of every kind
SpecMerge == InitOf(MergeScenarios) /\ [][NextSingular]_vars

\* singular actions with and without a body, one with postProcess
NextMethods ==
    \/ StaticCalls
    \/ InstanceCalls
    \/ \E r \in DOMAIN req : TransportInvoke(r)
    \/ \E r \in DOMAIN req : TransportSettle(r)
    \/ \E r \in DOMAIN req : Unwrap(r)
    \/ \E r \in DOMAIN req : PostProcess(r)
    \/ \E r \in DOMAIN req : Finalizer(r)
    \/ \E r \in DOMAIN req : UpdateResource(r)

SpecMethods == InitOf(MethodScenarios) /\ [][NextMethods]_vars

\* collection actions, no interceptor
NextCollection ==
    \/ StaticCalls
    \/ \E r \in DOMAIN req : TransportInvoke(r)
    \/ \E r \in DOMAIN req : TransportSettle(r)
    \/ \E r \in DOMAIN req : Unwrap(r)
    \/ \E r \in DOMAIN req : Finalizer(r)
    \/ \E r \in DOMAIN req : UpdateResourceArray(r)

SpecCollection == InitOf(CollectionScenarios) /\ [][NextCollection]_vars

\* singular and collection actions with parameters, no interceptor
NextSkip ==
    \/ StaticCalls
    \/ InstanceCalls
    \/ \E r \in DOMAIN req : TransportInvoke(r)
    \/ \E r \in DOMAIN req : TransportSettle(r)
    \/ \E r \in DOMAIN req : Unwrap(r)
    \/ \E r \in DOMAIN req : Finalizer(r)
    \/ \E r \in DOMAIN req : UpdateResource(r)
    \/ \E r \in DOMAIN req : UpdateResourceArray(r)

SpecSkip == InitOf(SkipScenarios) /\ [][NextSkip]_vars

\* a collection action and a singular action of one class
SpecElements == InitOf(ElementScenarios) /\ [][NextSkip]_vars

\* a singular action behind the interceptors
NextInterceptors ==
    \/ StaticCalls
    \/ InstanceCalls
    \/ \E r \in DOMAIN req : RequestInterceptor(r)
    \/ \E r \in DOMAIN req : TransportInvoke(r)
    \/ \E r \in DOMAIN req : TransportSettle(r)
    \/ \E r \in DOMAIN req : ResponseInterceptor(r)
    \/ \E r \in DOMAIN req : Unwrap(r)
    \/ \E r \in DOMAIN req : Finalizer(r)
    \/ \E r \in DOMAIN req : UpdateResource(r)

SpecInterceptors == InitOf(InterceptorScenarios) /\ [][NextInterceptors]_vars

\* a singular action behind the handlers and the error handlers of the interceptors
NextErrorHandlers ==
    \/ StaticCalls
    \/ \E r \in DOMAIN req : RequestInterceptor(r)
    \/ \E r \in DOMAIN req : TransportInvoke(r)
    \/ \E r \in DOMAIN req : TransportSettle(r)
    \/ \E r \in DOMAIN req : ResponseInterceptor(r)
    \/ \E r \in DOMAIN req : Unwrap(r)
    \/ \E r \in DOMAIN req : Finalizer(r)
    \/ \E r \in DOMAIN req : UpdateResource(r)

SpecErrorHandlers == InitOf(ErrorHandlerScenarios) /\ [][NextErrorHandlers]_vars

\* the same chains, with an interceptorLimit below the registered count as well
SpecPipeline == InitOf(PipelineScenarios) /\ [][NextErrorHandlers]_vars

\* $q runs every callback of a chain once its promise has settled, and the
\* transport and the handlers settle
Callbacks ==
    \E r \in DOMAIN req :
        \/ TransportInvoke(r) \/ TransportSettle(r) \/ Unwrap(r)
        \/ Finalizer(r) \/ UpdateResource(r) \/ UpdateResourceArray(r)

FairSpec ==
    /\ InitOf(SkipPathScenarios \cup SkipQueryScenarios)
    /\ [][NextSkip]_vars
    /\ WF_vars(Callbacks)

(***************************************************************************)
(* The properties checked.                                                 *)
(***************************************************************************)
\* the data of a wrapper: everything but $promise and $$unresolved
Data(w) == [kv |-> w.kv, value |-> w.value, length |-> w.length]

\* the request behind the $promise of wrapper w has settled rejected
RejectedBehind(w) ==
    /\ wr[w].promise \in DOMAIN req
    /\ Settled(req[wr[w].promise])
    /\ req[wr[w].promise].rej

\* C1: calling an instance method $action on an instance whose $$unresolved flag
\* is set throws UnresolvedRequest synchronously: no request is built, so neither
\* the transport nor an interceptor runs for it, and every instance keeps its data,
\* its flag and its $promise.
C1_UnresolvedInstanceCallThrows ==
    [][\A w \in DOMAIN wr, name \in DOMAIN factory.actions, arguments \in env.iargs :
          (InstanceCall(w, name, arguments) /\ wr[w].unresolved)
              => /\ ret' = Thrown("instance", name, "UnresolvedRequest")
                 /\ UNCHANGED <<wr, arrs, req>>]_vars

\* an instance call threw UnresolvedRequest while a request is pending
C1_Witness ==
    /\ ret = Thrown("instance", sAct, "UnresolvedRequest")
    /\ \E w \in DOMAIN wr : wr[w].unresolved /\ wr[w].promise \in DOMAIN req
                            /\ ~Settled(req[wr[w].promise])

FlagSet(objects, i) == IF i \in DOMAIN objects THEN objects[i].unresolved ELSE FALSE

\* C3: with the callbacks of every chain eventually run and the transport eventually
\* settling, a wrapper or an array whose $$unresolved flag is set eventually has it
\* cleared, whether the request fulfils, rejects or is short-circuited by
\* skipOnMissingParams.
C3_FlagEventuallyCleared ==
    /\ [](Len(wr) <= MaxRequests /\ Len(arrs) <= MaxRequests)
    /\ \A w \in 1..MaxRequests : FlagSet(wr, w) ~> ~FlagSet(wr, w)
    /\ \A a \in 1..MaxRequests : FlagSet(arrs, a) ~> ~FlagSet(arrs, a)

\* the flag is clear behind a short-circuited request and behind one the transport settled
C3_Witness ==
    /\ \E r \in DOMAIN req :
          /\ req[r].skipped /\ Settled(req[r]) /\ req[r].form # "collection"
          /\ wr[req[r].target].promise = r /\ ~wr[req[r].target].unresolved
    /\ \E r \in DOMAIN req :
          /\ ~req[r].skipped /\ Settled(req[r]) /\ req[r].form # "collection"
          /\ wr[req[r].target].promise = r /\ ~wr[req[r].target].unresolved

\* a declared parameter resolves to undefined or null: extraction signals it missing
SignalsMissing(params, args, data) ==
    LET p == extractParams(params, args, data)
    IN  p.t = "extracted" /\ \E i \in DOMAIN p.entries : Nullish(p.entries[i].value)

\* the call that just returned was made with a path or query parameter missing
CallSignalsMissing ==
    LET action == factory.actions[ret.name]
        static == ret.op = "static"
        data == IF ~static THEN unwrap(wr[ret.self])
                ELSE IF hasBody(action) THEN ret.args[1] ELSE Null
        args == IF static /\ hasBody(action) THEN Slice(ret.args, 1) ELSE ret.args
    IN  \/ Has(action, "params") /\ SignalsMissing(action.params, args, data)
        \/ Has(action, "queryParams") /\ SignalsMissing(action.queryParams, args, data)

\* the call that just returned short-circuited when skipOnMissingParams asked for it
SkippedWhenMissing ==
    (ret.outcome = "return" /\ Flag(factory.actions[ret.name], "skipOnMissingParams")
        /\ CallSignalsMissing)
        => req[Len(req)].skipped

\* a short-circuited request: nothing ran for it, null until the caller's callback,
\* and the flag clear once settled
SkippedRunsNothing ==
    \A r \in DOMAIN req :
        req[r].skipped
            => /\ req[r].trace = <<>> /\ ~req[r].inflight /\ req[r].raw = Undefined
               /\ req[r].config = Null /\ ~req[r].rej
               /\ ~Settled(req[r]) => req[r].val = Null
               /\ (Settled(req[r]) /\ req[r].form = "collection"
                      /\ arrs[req[r].target].promise = r)
                      => ~arrs[req[r].target].unresolved
               /\ (Settled(req[r]) /\ req[r].form # "collection"
                      /\ wr[req[r].target].promise = r)
                      => ~wr[req[r].target].unresolved

\* C4: a call of an action with skipOnMissingParams for which the extraction of the
\* path or of the query parameters signals a missing value is short-circuited: the
\* transport is never invoked and no interceptor handler runs for it, the promise
\* performAction returns resolves to null, the flag of the wrapper (or array) is
\* clear once the promise has settled, and the callbacks leave the data unchanged.
C4_SkipOnMissingParams ==
    [][/\ SkippedWhenMissing'
       /\ SkippedRunsNothing'
       /\ \A r \in DOMAIN req :
             (req[r].skipped /\ req'[r] # req[r])
                 => /\ Len(wr') = Len(wr)
                    /\ \A w \in DOMAIN wr : Data(wr'[w]) = Data(wr[w])
                    /\ \A a \in DOMAIN arrs : arrs'[a].items = arrs[a].items]_vars

\* a static, an instance and a collection call were short-circuited and settled
C4_Witness ==
    \E r \in DOMAIN req :
        /\ req[r].skipped /\ Settled(req[r])
        /\ \/ /\ req[r].form = "instance"
              /\ ~wr[req[r].target].unresolved
              /\ req[r].val = WrapperRef(req[r].target)
           \/ /\ req[r].form = "collection"
              /\ ~arrs[req[r].target].unresolved
              /\ req[r].val = ArrayRef(req[r].target)

\* the methods with a body, in the letter cases the factories use
BodyMethods == {sPOST, sPostLower, sPUT, sPutMixed, sPATCH, sPatchLower}

\* an action carries a body, by hasData or by its method
ActionCarriesBody(action) == Flag(action, "hasData") \/ action.method \in BodyMethods

\* C5: for an action that carries a body (hasData set, or method POST, PUT or PATCH
\* in any letter case) the static method called with undefined or null data throws
\* MissingBodyError synchronously: no wrapper is created or returned, no parameter
\* is extracted into a request, and no chain (transport, interceptors) is started.
C5_MissingBodyThrows ==
    [][\A name \in DOMAIN factory.actions, arguments \in env.args :
          (/\ StaticCall(name, arguments)
           /\ ActionCarriesBody(factory.actions[name])
           /\ \/ arguments = <<>>
              \/ arguments[1] \in {Undefined, Null})
              => /\ ret' = Thrown("static", name, "MissingBodyError")
                 /\ UNCHANGED <<wr, arrs, req>>]_vars

\* the static method of the Put action, whose parameter extraction would throw,
\* threw MissingBodyError
C5_Witness ==
    /\ ret.op = "static" /\ ret.error = "MissingBodyError"
    /\ factory.actions[ret.name].method = sPutMixed

\* the transport was invoked for request r
Transported(r) == \E k \in DOMAIN req[r].trace : req[r].trace[k] = Event("transport", 0)

\* Resource.get({id: 5}) of the example returns at once an empty object-like
\* wrapper, flagged, with the promise of the request just issued
GetReturnsPendingWrapper ==
    (ret.outcome = "return" /\ ret.op = "static" /\ ret.name = sGet)
        => /\ ret.args = <<ObjId5>>
           /\ Data(wr[ret.id]) = Data(EmptyShell)
           /\ wr[ret.id].unresolved
           /\ wr[ret.id].promise = Len(req)
           /\ req[Len(req)].target = ret.id

\* the request of Resource.get fulfilled with {name: 'Ann'}: the wrapper returned has
\* name 'Ann', its flag is clear and the promise resolves to it
GetMergesResponse ==
    \A r \in DOMAIN req :
        (req[r].name = sGet /\ req[r].form = "static" /\ Settled(req[r]) /\ ~req[r].rej
            /\ wr[req[r].target].promise = r)
            => /\ req[r].raw = Response(ObjAnn)
               /\ wr[req[r].target].kv[sName] = Str(sAnn)
               /\ ~wr[req[r].target].unresolved
               /\ req[r].val = WrapperRef(req[r].target)

\* C6 as stated: in the example, the request Resource.get({id: 5}) hands to the
\* transport has a URL ending in '/user/5', the wrapper is returned at once with
\* resolution pending, and on fulfilment with {name: 'Ann'} it gains name 'Ann' and
\* its flag is cleared.
C6_Original ==
    /\ GetReturnsPendingWrapper
    /\ GetMergesResponse
    /\ \A r \in DOMAIN req :
          (req[r].name = sGet /\ req[r].form = "static" /\ Transported(r))
              => EndsWith(req[r].config.url, sUser5)

\* C6, amended: get declares no params, so the placeholder of the route is not
\* replaced and the URL handed to the transport is the base URL followed by
\* '/user/:id'; a path parameter is replaced for save, whose params are {id: '@id'}:
\* Resource.save({id: 5}) is sent to a URL ending in '/user/5'.  The rest holds as
\* stated: the wrapper is returned at once, empty, with resolution pending, and on
\* fulfilment with {name: 'Ann'} that wrapper gains name 'Ann' and its flag is cleared.
C6_GetKeepsPlaceholder ==
    /\ GetReturnsPendingWrapper
    /\ GetMergesResponse
    /\ \A r \in DOMAIN req :
          (req[r].form = "static" /\ Transported(r))
              => IF req[r].name = sGet
                 THEN req[r].config.url = sBase \o sUserRoute
                 ELSE EndsWith(req[r].config.url, sUser5)

\* Resource.get({id: 5}) went to the transport with the placeholder in its URL and
\* fulfilled: the wrapper has name 'Ann'
C6_Witness ==
    \E r \in DOMAIN req :
        /\ req[r].name = sGet /\ req[r].form = "static" /\ Transported(r)
        /\ ~EndsWith(req[r].config.url, sUser5)
        /\ Settled(req[r]) /\ ~req[r].rej
        /\ wr[req[r].target].kv[sName] = Str(sAnn)
        /\ ~wr[req[r].target].unresolved

\* the action of request r carries a body
CarriesBody(r) == ActionCarriesBody(factory.actions[req[r].name])

SetsIgnoreResponse(r) == Flag(factory.actions[req[r].name], "ignoreResponse")

\* the caller's callback of collection request r has run on an array payload
SettledOnArray(r) ==
    /\ req[r].form = "collection" /\ Settled(req[r])
    /\ req[r].raw.t = "response" /\ isArray(req[r].raw.data)

\* the caller's callback of collection request r has run on a payload that is
\* defined, not null and not an array
SettledOnNonArray(r) ==
    /\ req[r].form = "collection" /\ Settled(req[r])
    /\ req[r].raw.t = "response"
    /\ ~Nullish(req[r].raw.data) /\ ~isArray(req[r].raw.data)

\* the i-th wrapper of the array of collection request r
ItemOf(r, i) == wr[arrs[req[r].target].items[i]]

\* the wrappers of a collection request with a body are as created from the body
ItemsAsCreated(r) ==
    /\ Len(arrs[req[r].target].items) = Len(req[r].config.data.items)
    /\ \A i \in DOMAIN arrs[req[r].target].items :
          Data(ItemOf(r, i)) = Data(Resource(EmptyShell, req[r].config.data.items[i]))

\* C7 as stated: a collection action called with an array body settles fulfilled
\* with the array of wrappers for an array response of any length.
C7_AnyLengthSucceeds ==
    \A r \in DOMAIN req :
        (SettledOnArray(r) /\ CarriesBody(r) /\ ~SetsIgnoreResponse(r))
            => ~req[r].rej /\ req[r].val = ArrayRef(req[r].target)

\* a collection request with a body rejected with a TypeError: the response array is
\* longer than the body
C7_Witness ==
    \E r \in DOMAIN req :
        /\ SettledOnArray(r) /\ CarriesBody(r)
        /\ req[r].rej /\ req[r].val = Err("TypeError")
        /\ Len(req[r].raw.data.items) > Len(req[r].config.data.items)

\* what a collection call returns: with a body, one flagged array of one wrapper
\* per body element, created before the transport is invoked; without, an empty array
CollectionCallReturns ==
    (ret.outcome = "return" /\ Flag(factory.actions[ret.name], "isArray"))
        => LET r == Len(req)
           IN  /\ req[r].form = "collection" /\ req[r].target = ret.id
               /\ arrs[ret.id].unresolved /\ arrs[ret.id].promise = r
               /\ ~Transported(r)
               /\ IF CarriesBody(r) THEN ItemsAsCreated(r)
                  ELSE arrs[ret.id].items = <<>>

\* the array of a collection request after settlement on an array payload; merged
\* tells whether the response was merged into the wrappers of the body
CollectionSettles(r, merged) ==
    LET items == arrs[req[r].target].items
        data == req[r].raw.data.items
    IN  IF CarriesBody(r)
        THEN /\ Len(items) = Len(req[r].config.data.items)
             /\ \A i \in DOMAIN items :
                   Data(ItemOf(r, i)) =
                       Data(IF merged /\ i <= Len(data)
                            THEN Resource(Resource(EmptyShell, req[r].config.data.items[i]), data[i])
                            ELSE Resource(EmptyShell, req[r].config.data.items[i]))
        ELSE /\ Len(items) = Len(data)
             /\ \A i \in DOMAIN items : Data(ItemOf(r, i)) = Data(Resource(EmptyShell, data[i]))

\* the arrays keep the wrappers they hold, and only a collection action without a
\* body appends to its array
KeepsIdentities ==
    \A a \in DOMAIN arrs :
        /\ SubSeq(arrs'[a].items, 1, Len(arrs[a].items)) = arrs[a].items
        /\ Len(arrs'[a].items) > Len(arrs[a].items)
              => \E r \in DOMAIN req : req[r].target = a /\ req[r].form = "collection"
                                       /\ ~CarriesBody(r) /\ req'[r] # req[r]

NonArraySettles(r, suppressed) ==
    /\ IF suppressed
       THEN ~req[r].rej /\ req[r].val = req[r].raw.data
       ELSE req[r].rej /\ req[r].val = Err("ExpectedArrayError")
    /\ IF CarriesBody(r) THEN ItemsAsCreated(r) ELSE arrs[req[r].target].items = <<>>

\* C9 as stated: every collection action fails with ExpectedArrayError on a payload
\* that is defined, not null and not an array, adding and modifying no wrapper,
\* unless the action sets ignoreResponse.
C9_Original ==
    \A r \in DOMAIN req : SettledOnNonArray(r) => NonArraySettles(r, SetsIgnoreResponse(r))

\* C9, amended: ignoreResponse suppresses the inspection only for an action that
\* carries a body; a collection action without a body fails with ExpectedArrayError
\* on such a payload whether or not it sets ignoreResponse.  No wrapper is added or
\* modified either way.
C9_NonArrayFailsUnlessBodyIgnored ==
    \A r \in DOMAIN req :
        SettledOnNonArray(r) => NonArraySettles(r, CarriesBody(r) /\ SetsIgnoreResponse(r))

\* a collection action without a body that sets ignoreResponse failed on an object
C9_Witness ==
    \E r \in DOMAIN req :
        /\ SettledOnNonArray(r) /\ ~CarriesBody(r) /\ SetsIgnoreResponse(r)
        /\ req[r].val = Err("ExpectedArrayError")

\* the caller's callback of singular request r runs in this step
CallbackRuns(r) ==
    /\ req[r].form # "collection" /\ ~Settled(req[r])
    /\ ChainOf(req[r])[req[r].pos].kind = "then"
    /\ req'[r] # req[r]

\* the data of the wrappers change only by the callback of a request that does not
\* ignore its response, which merges the response into the wrapper of the request;
\* ignores(r) tells whether request r ignores its response
SingularSettlement(ignores(_)) ==
    /\ \A r \in DOMAIN req :
          CallbackRuns(r)
              => Data(wr'[req[r].target])
                    = Data(IF ignores(r) THEN wr[req[r].target]
                           ELSE Resource(wr[req[r].target], req[r].val))
    /\ \A w \in DOMAIN wr :
          Data(wr'[w]) # Data(wr[w])
              => \E r \in DOMAIN req : req[r].target = w /\ CallbackRuns(r) /\ ~ignores(r)
    /\ \A w \in DOMAIN wr' \ DOMAIN wr :
          /\ ret'.op = "static" /\ ret'.id = w
          /\ Data(wr'[w]) = Data(Resource(EmptyShell,
                                 IF ActionCarriesBody(factory.actions[ret'.name])
                                 THEN ret'.args[1] ELSE Null))

\* C10 as stated: for every singular action, with or without a body, called through
\* the class or on an instance, the settlement leaves the data of the wrapper as it
\* was before the call when the action sets ignoreResponse, and merges the response
\* into that wrapper when it does not.
C10_Original == [][SingularSettlement(SetsIgnoreResponse)]_vars

\* the action of request r carries a body and sets ignoreResponse
BodyAndIgnoreResponse(r) == CarriesBody(r) /\ SetsIgnoreResponse(r)

\* C10, amended: ignoreResponse keeps the response out of the wrapper only for an
\* action that carries a body; for an action without a body the response is merged
\* into the wrapper whether or not ignoreResponse is set.
C10_IgnoreResponseNeedsBody == [][SingularSettlement(BodyAndIgnoreResponse)]_vars

\* an action without a body that sets ignoreResponse fulfilled with {name: 'Ann'},
\* and the wrapper has name 'Ann'
C10_Witness ==
    \E r \in DOMAIN req :
        /\ req[r].form # "collection" /\ Settled(req[r]) /\ ~req[r].rej
        /\ ~CarriesBody(r) /\ SetsIgnoreResponse(r)
        /\ req[r].raw = Response(ObjAnn)
        /\ wr[req[r].target].kv[sName] = Str(sAnn)
        /\ req[r].val = WrapperRef(req[r].target)

\* the wrapper owns the $value slot: the boxed representation
Boxed(w) == w.value # Absent

\* the wrapper owns data keys: the object-like representation
Keyed(w) == \E k \in Keys : w.kv[k] # Absent

\* C11 as stated: in every reachable state no wrapper is boxed and object-like at
\* once: it never owns the $value slot together with data keys.
C11_OneRepresentation == \A w \in DOMAIN wr : ~(Boxed(wr[w]) /\ Keyed(wr[w]))

\* a wrapper created from the body {id: 5} was settled with the response 7: it owns
\* both the key id and $value
C11_Witness ==
    \E r \in DOMAIN req :
        /\ req[r].form = "static" /\ Settled(req[r]) /\ ~req[r].rej
        /\ req[r].raw = Response(Num7)
        /\ wr[req[r].target].value = Num7
        /\ wr[req[r].target].kv[sId] = Num(<<"5">>)

\* nothing but the data keys of wrapper w is in what $unwrap built
OnlyDataKeys(w) ==
    /\ unwrapData(w).own.kv = w.kv
    /\ unwrapData(w).own.length = -1
    /\ unwrapData(w).own.promise = 0
    /\ unwrapData(w).own.unresolved = FALSE

\* C12: in every reachable state $unwrap of a wrapper without $value returns the
\* wrapper's own data keys with their values and none of $$unresolved, $promise
\* and $$length, whether or not a request is outstanding; and the wrapper a static
\* call has just created from a plain object x unwraps to x.
C12_UnwrapReturnsDataKeys ==
    /\ \A w \in DOMAIN wr : ~Boxed(wr[w]) => OnlyDataKeys(wr[w])
    /\ (ret.outcome = "return" /\ ret.op = "static" /\ ret.args # <<>>
            /\ isObject(ret.args[1]) /\ ~isArray(ret.args[1]))
           => unwrap(wr[ret.id]) = ret.args[1]

\* one wrapper created from {id: 5} has its request outstanding, and one created
\* from an array has settled and merged {name: 'Ann'}: both own reserved slots
C12_Witness ==
    /\ ret.outcome = "return" /\ ret.op = "static" /\ ret.args = <<ObjId5>>
    /\ wr[ret.id].unresolved /\ wr[ret.id].promise # 0
    /\ unwrap(wr[ret.id]) = ObjId5
    /\ \E w \in DOMAIN wr :
           /\ wr[w].length = 1 /\ ~wr[w].unresolved /\ wr[w].promise # 0
           /\ wr[w].kv[sName] = Str(sAnn)
           /\ unwrap(wr[w]) = ArrayOf(Num7, 1)

\* the phase of a logged event: request handlers, the transport, response handlers
Phase(ev) ==
    CASE ev.e \in {"request", "requestError"} -> 1
      [] ev.e = "transport" -> 2
      [] OTHER -> 3

\* the plain handlers the interceptors below the limit define, in registration order
PlainHandlers(kind, limit) ==
    LET idx == SelectSeq([j \in 1..limit |-> j],
                         LAMBDA j : Has(instancedInterceptors[j], kind))
    IN  [k \in DOMAIN idx |-> Event(kind, idx[k])]

\* what the claim expects a call to log: every request handler, the transport
\* once, every response handler
ExpectedTrace(limit) ==
    PlainHandlers("request", limit) \o <<Event("transport", 0)>>
    \o PlainHandlers("response", limit)

IsPrefix(s, t) == Len(s) <= Len(t) /\ \A k \in DOMAIN s : s[k] = t[k]

\* C13 as stated: every call that is not short-circuited runs the request handlers
\* of the interceptors 0..L-1 in order, then the transport exactly once, then the
\* response handlers of the interceptors 0..L-1 in order.
C13_Original ==
    \A r \in DOMAIN req :
        ~req[r].skipped =>
            /\ IsPrefix(req[r].trace, ExpectedTrace(req[r].config.interceptorLimit))
            /\ Settled(req[r]) => req[r].trace = ExpectedTrace(req[r].config.interceptorLimit)

\* the handlers logged belong to interceptors below the limit that define them
HandlersBelowLimit(r) ==
    \A k \in DOMAIN r.trace :
        r.trace[k].e # "transport" =>
            /\ r.trace[k].i \in 1..r.config.interceptorLimit
            /\ Has(instancedInterceptors[r.trace[k].i], r.trace[k].e)

\* request handlers, then the transport at most once, then response handlers, each
\* phase in strictly increasing registration order
PhasesInOrder(r) ==
    \A j, k \in DOMAIN r.trace :
        j < k => /\ Phase(r.trace[j]) <= Phase(r.trace[k])
                 /\ Phase(r.trace[j]) = Phase(r.trace[k])
                        => (Phase(r.trace[j]) # 2 /\ r.trace[j].i < r.trace[k].i)

\* a settled chain that never invoked the transport was rejected by a handler of
\* the request phase
TransportUnlessRejected(r) ==
    (Settled(r) /\ \A k \in DOMAIN r.trace : r.trace[k].e # "transport")
        => \E k \in DOMAIN r.trace : Phase(r.trace[k]) = 1

\* C13, amended: for every call that is not short-circuited, only handlers of the
\* interceptors below the limit L run; the handlers of the request phase run in
\* registration order before the transport, the transport is invoked at most once
\* (and always unless a request handler ran and the promise left the request phase
\* rejected), and the handlers of the response phase run afterwards in the same
\* registration order; on a rejected promise the error handler of an interceptor
\* runs instead of its plain handler, so a handler may be passed over and response
\* error handlers may run although the transport was never invoked.
C13_PipelineOrder ==
    \A r \in DOMAIN req :
        ~req[r].skipped =>
            /\ HandlersBelowLimit(req[r])
            /\ PhasesInOrder(req[r])
            /\ TransportUnlessRejected(req[r])

\* behind both interceptors a call ran request 0, requestError 1, the transport,
\* response 0 and responseError 1, and settled
C13_Witness ==
    \E r \in DOMAIN req :
        /\ Settled(req[r])
        /\ req[r].config.interceptorLimit = Len(instancedInterceptors)
        /\ req[r].trace = << Event("request", 1), Event("requestError", 2),
                             Event("transport", 0),
                             Event("response", 1), Event("responseError", 2) >>

\* the interceptorLimit the factory was created with exceeds the registered count
LimitBeyondRegistered ==
    /\ isObject(env.config)
    /\ Has(env.config.fields, "interceptorLimit")
    /\ env.config.fields.interceptorLimit > Len(instancedInterceptors)

\* C14: a factory created with an interceptorLimit greater than the number of
\* registered interceptors throws a configuration error and yields no Resource
\* class (no action method, hence no call); a factory created without a limit uses
\* the registered count; and the chain of every call attaches handlers only of
\* interceptors that exist.
C14_LimitWithinRegistered ==
    /\ LimitBeyondRegistered
           => /\ factory.status = "Error"
              /\ factory.actions = <<>>
              /\ wr = <<>> /\ arrs = <<>> /\ req = <<>>
    /\ isUndefined(env.config)
           => /\ factory.status = "ok"
              /\ factory.resourceConfig.interceptorLimit = Len(instancedInterceptors)
    /\ factory.status = "ok"
           => factory.resourceConfig.interceptorLimit <= Len(instancedInterceptors)
    /\ \A r \in DOMAIN req :
           ~req[r].skipped =>
               /\ req[r].config.interceptorLimit <= Len(instancedInterceptors)
               /\ \A k \in DOMAIN ChainOf(req[r]) :
                      ChainOf(req[r])[k].kind \in {"request", "response"}
                          => ChainOf(req[r])[k].i \in DOMAIN instancedInterceptors

\* the factory created with interceptorLimit = registered count + 1 threw
C14_Witness == LimitBeyondRegistered /\ factory.status = "Error"

\* argument number n (0-based) of a list of arguments, undefined past its end
Argument(list, n) == IF n + 1 \in DOMAIN list THEN list[n + 1] ELSE Undefined

\* the request the call recorded in ret has created
RequestOfCall == IF ret.op = "instance" THEN ret.id ELSE wr[ret.id].promise

\* the query parameter id of the request the last call created
QueryId == req[RequestOfCall].config.params.entries[1].value

\* the number n of the mapper '@n' of the action called last
MapperNumber ==
    DecimalValue(Slice(factory.actions[ret.name].queryParams.entries[1].value.v, 1))

QueryParams == req[RequestOfCall].config.params

\* the property a.b of a value, undefined when the value or its property a is
\* undefined or null
PathAB(v) ==
    IF Nullish(v) \/ Nullish(Get(v, <<"a">>)) THEN Undefined
    ELSE Get(Get(v, <<"a">>), <<"b">>)

C16_WitnessResolved ==
    /\ ret.outcome = "return"
    /\ ret.args = <<Lit(<<"a">> :> Lit(<<"b">> :> Num7)), Num7>>
    /\ QueryParams.entries[1].value = Num7
    /\ ~QueryParams.missing

\* the wrapper the static call behind request r created, before any response
CreatedFor(r) == Resource(EmptyShell, IF r.config.data = Absent THEN Null ELSE r.config.data)

\* the finalizer of the chain of request r has run
FinalizerDone(r) ==
    \A k \in DOMAIN ChainOf(r) : ChainOf(r)[k].kind = "finally" => r.pos > k

\* every request belongs to one wrapper of its own, whose flag and data follow
\* that request alone: the flag is set until the request's finalizer has run, and
\* the data is what the wrapper was created from, merged with the request's own
\* response once the request has settled fulfilled
EachWrapperFollowsOwnRequest ==
    \A r \in DOMAIN req :
        /\ wr[req[r].target].promise = r
        /\ \A q \in DOMAIN req : q # r => req[q].target # req[r].target
        /\ wr[req[r].target].unresolved <=> ~FinalizerDone(req[r])
        /\ Data(wr[req[r].target]) =
               IF Settled(req[r]) /\ ~req[r].rej
               THEN Data(Resource(CreatedFor(req[r]), req[r].raw.data))
               ELSE Data(CreatedFor(req[r]))

\* the static call of action name accepts item as its only argument
AcceptsItem(name, item) == ~(ActionCarriesBody(factory.actions[name]) /\ Nullish(item))

\* the step returned an array of n new wrappers in input order, one new pending
\* request each
EachReturns(name, items) ==
    /\ ret'.outcome = "return"
    /\ Len(req') = Len(req) + Len(items)
    /\ Len(wr') = Len(wr) + Len(items)
    /\ arrs'[ret'.id].items = [i \in DOMAIN items |-> Len(wr) + i]
    /\ \A i \in DOMAIN items :
           /\ req'[Len(req) + i].target = Len(wr) + i
           /\ ~req'[Len(req) + i].skipped
           /\ wr'[Len(wr) + i].unresolved
           /\ wr'[Len(wr) + i].promise = Len(req) + i
           /\ Data(wr'[Len(wr) + i]) =
                  Data(Resource(EmptyShell, IF ActionCarriesBody(factory.actions[name])
                                            THEN items[i] ELSE Null))

\* the step threw a type error and left every wrapper, array and request alone
EachRejectsNonArray(name) ==
    /\ ret' = Thrown("each", name, "ExpectedTypeError")
    /\ UNCHANGED <<wr, arrs, req>>

\* C17 as stated: .each called with an array of n inputs issues n requests and
\* returns n distinct wrappers in input order, each following its own request
\* only; called with a non-array it throws a type error and issues no request.
C17_Original ==
    [][/\ \A name \in DOMAIN factory.actions, arguments \in env.args :
              Each(name, arguments[1]) =>
                  IF isArray(arguments[1]) THEN EachReturns(name, arguments[1].items)
                  ELSE EachRejectsNonArray(name)
       /\ EachWrapperFollowsOwnRequest']_vars

\* the elements before the first one the static call does not accept
RECURSIVE AcceptedPrefix(_, _)
AcceptedPrefix(name, items) ==
    IF items = <<>> \/ ~AcceptsItem(name, Head(items)) THEN <<>>
    ELSE <<Head(items)>> \o AcceptedPrefix(name, Tail(items))

\* the step threw the error of the first element that is not accepted, after the
\* requests of the elements before it were issued, and returned no array
EachThrowsMidway(name, items) ==
    /\ ret' = Thrown("each", name, "MissingBodyError")
    /\ Len(req') = Len(req) + Len(AcceptedPrefix(name, items))
    /\ Len(wr') = Len(wr) + Len(AcceptedPrefix(name, items))
    /\ arrs' = arrs
    /\ \A i \in 1..Len(AcceptedPrefix(name, items)) :
           req'[Len(req) + i].target = Len(wr) + i

\* C17, amended: .each called with an array of n inputs each of which the static
\* action accepts (for an action with a body: none is undefined or null) issues
\* exactly n requests and returns n distinct new wrappers in input order; wrapper
\* i's flag is cleared by the finalizer of request i only and its data is merged
\* from response i only, whatever the order of the settlements; when an element is
\* not accepted the call throws that element's error after the requests of the
\* elements before it were issued, and returns nothing; called with a non-array it
\* throws a type error and issues no request.
C17_EachIndependent ==
    [][/\ \A name \in DOMAIN factory.actions, arguments \in env.args :
              Each(name, arguments[1]) =>
                  IF ~isArray(arguments[1]) THEN EachRejectsNonArray(name)
                  ELSE IF AcceptedPrefix(name, arguments[1].items) = arguments[1].items
                  THEN EachReturns(name, arguments[1].items)
                  ELSE EachThrowsMidway(name, arguments[1].items)
       /\ EachWrapperFollowsOwnRequest']_vars

\* .each([{id: 5}, {name: 'Ann'}]) of a body-bearing action: the second request has
\* settled and merged {name: 'Bob'} into the second wrapper while the first is
\* still outstanding and its wrapper is as created
C17_Witness ==
    /\ Len(arrs) = 1 /\ arrs[1].items = <<1, 2>>
    /\ req[1].config.data = ObjId5 /\ req[2].config.data = ObjAnn
    /\ ~FinalizerDone(req[1]) /\ wr[1].unresolved /\ wr[1].kv[sName] = Absent
    /\ Settled(req[2]) /\ ~req[2].rej /\ req[2].raw = Response(ObjBob)
    /\ ~wr[2].unresolved /\ wr[2].kv[sName] = Str(sBob)

\* the value leaving the response interceptors of request r is the response object
\* the transport produced
IsRawResponse(r) == r.raw # Undefined /\ r.val = r.raw

\* C18 as stated: the callback behind the response interceptors fulfils with the
\* data field of the value it receives when that value is the very response object
\* the transport produced, and otherwise with the value itself, unchanged.
C18_PayloadByIdentity ==
    [][\A r \in DOMAIN req :
          Unwrap(r) =>
              /\ ~req'[r].rej
              /\ req'[r].val = IF IsRawResponse(req[r]) THEN req[r].raw.data
                               ELSE req[r].val]_vars

\* the transport was never fulfilled, a responseError handler recovered with
\* undefined, and the callback behind the interceptors has thrown a TypeError
C18_Witness ==
    \E r \in DOMAIN req :
        /\ req[r].raw = Undefined
        /\ req[r].trace # <<>> /\ req[r].trace[Len(req[r].trace)].e = "responseError"
        /\ req[r].rej /\ req[r].val = Err("TypeError")

\* the settlement of request r will merge a response into wrapper w: r is the
\* request of a singular call on w, or of a collection call with a body one of
\* whose pre-created elements is w, and its response is not ignored
MergesInto(r, w) ==
    /\ ~req[r].skipped
    /\ ~IgnoresResponse(factory.actions[req[r].name])
    /\ IF req[r].form = "collection"
       THEN /\ CarriesBody(r)
            /\ \E i \in DOMAIN arrs[req[r].target].items : arrs[req[r].target].items[i] = w
       ELSE req[r].target = w

\* C19 as stated: in every reachable state every wrapper, the elements pre-created
\* by a collection action with a body included, has at most one request not yet
\* settled that will merge into it, and no two requests that will merge into it
\* are in flight at the transport together.
C19_OneRequestPerWrapper ==
    \A w \in DOMAIN wr :
        \A r, q \in DOMAIN req :
            (r # q /\ MergesInto(r, w) /\ MergesInto(q, w))
                => /\ Settled(req[r]) \/ Settled(req[q])
                   /\ ~(req[r].inflight /\ req[q].inflight)

\* the request of a collection call with a body and the request of an instance
\* call on one of its pre-created elements are both in flight at the transport
C19_Witness ==
    \E r, q \in DOMAIN req :
        /\ req[r].form = "collection" /\ req[r].inflight
        /\ req[q].form = "instance" /\ req[q].inflight
        /\ MergesInto(r, req[q].target)

\* request r has fulfilled and its finalizer has run, while the callback that
\* merges its response has not
MergePending(r) == FinalizerDone(r) /\ ~Settled(r) /\ ~r.rej

\* C20: for the request behind a singular action the finalizer and the merge are
\* two steps in that order: the finalizer clears the flag and leaves the data
\* alone, the merge runs only after the finalizer has run, and an instance call
\* made on the wrapper between the two, when the flag is absent, is accepted and
\* issues a request.
C20_FlagClearedBeforeMerge ==
    [][/\ \A r \in DOMAIN req :
              /\ Finalizer(r) => /\ ~wr'[req[r].target].unresolved
                                 /\ Data(wr'[req[r].target]) = Data(wr[req[r].target])
                                 /\ ~req[r].rej => MergePending(req'[r])
              /\ UpdateResource(r) => FinalizerDone(req[r])
       /\ \A w \in DOMAIN wr, name \in DOMAIN factory.actions, arguments \in env.iargs :
              (/\ InstanceCall(w, name, arguments)
               /\ ~wr[w].unresolved
               /\ \E r \in DOMAIN req : req[r].target = w /\ MergePending(req[r]))
                  => /\ ret' = Returned("instance", name, arguments, w, Len(req) + 1)
                     /\ Len(req') = Len(req) + 1
                     /\ wr'[w].unresolved]_vars

\* the request of a static call has fulfilled with {name: 'Ann'} and its finalizer
\* has run; the wrapper does not own name yet, and an instance call on it has just
\* been accepted
C20_Witness ==
    /\ ret.outcome = "return" /\ ret.op = "instance"
    /\ \E r \in DOMAIN req :
           /\ req[r].form = "static" /\ req[r].target = ret.self
           /\ MergePending(req[r])
           /\ req[r].val = ObjAnn
           /\ wr[ret.self].kv[sName] = Absent

\* the response d supplies the data key k
Supplies(d, k) == isObject(d) /\ OwnProps(d)[k] # Absent

\* wrapper after holds everything wrapper before held, with the previous value
\* wherever the response d supplies nothing
OnlyAddsOrOverwrites(before, after, d) ==
    /\ \A k \in Keys :
           before.kv[k] # Absent =>
               /\ after.kv[k] # Absent
               /\ ~Supplies(d, k) => after.kv[k] = before.kv[k]
    /\ before.value # Absent =>
           /\ after.value # Absent
           /\ (isObject(d) \/ Nullish(d)) => after.value = before.value
    /\ before.length >= 0 =>
           /\ after.length >= 0
           /\ ~isArray(d) => after.length = before.length
    /\ Nullish(d) => Data(after) = Data(before)

\* C21: the step that merges the response of a request into its wrapper only adds
\* or overwrites: every data key, $value and $$length the wrapper held is still
\* held afterwards, with its previous value when the response does not supply it;
\* a null or undefined response leaves the wrapper's data unchanged; and the data
\* of every other wrapper is left alone.
C21_MergeOnlyAdds ==
    [][\A r \in DOMAIN req :
          UpdateResource(r) =>
              /\ OnlyAddsOrOverwrites(wr[req[r].target], wr'[req[r].target], req[r].val)
              /\ \A w \in DOMAIN wr : w # req[r].target => Data(wr'[w]) = Data(wr[w])]_vars

\* a wrapper created from {id: 5} was settled with 7 and then, through an instance
\* call, with {id: 7, name: 'Ann'}: it still owns $value = 7, its id is overwritten
\* and name is added
C21_Witness ==
    \E r, q \in DOMAIN req :
        /\ r # q /\ req[r].target = req[q].target
        /\ Settled(req[r]) /\ req[r].raw = Response(Num7)
        /\ Settled(req[q]) /\ req[q].raw = Response(ObjId7Ann)
        /\ wr[req[r].target].value = Num7
        /\ wr[req[r].target].kv[sId] = Num7
        /\ wr[req[r].target].kv[sName] = Str(sAnn)

====
